---- MODULE Spec2Model ----
(***************************************************************************)
(* gDrive2Video: the incremental sync engine (gdrive_sync.py), the media   *)
(* player (media_player.py) and the archived all-in-one script             *)
(* (archive/gdrive2video.py), as state machines.                           *)
(*                                                                         *)
(* Time is counted in ticks of 1/TicksPerSecond seconds, so that the       *)
(* 1-second drift tolerance of _local_file_matches and a difference of     *)
(* 1.5 s are both whole numbers of ticks.                                  *)
(***************************************************************************)
EXTENDS Integers, Sequences, FiniteSets, TLC

\* ------------------------------------------------------------------ bounds
TicksPerSecond == 2
MaxTime == 3
MaxEntries == 2
MaxPasses == 2
MaxOutLen == 3
MaxCycles == 2
MaxPages == 3
MaxPageSize == 2
MaxInterval == 2

\* -------------------------------------------------------- program constants
\* gdrive_sync.py:205  abs(local_mtime - remote_ts) > 1
DRIFT_SECONDS == 1
\* media_player.py:22, archive/gdrive2video.py:44
DEFAULT_VIDEO_TIMEOUT == 300
\* archive/gdrive2video.py:308  proc.wait(timeout=5)
GRACE_SECONDS == 5
\* media_player.py:184  time.sleep(30)
BACKOFF_SECONDS == 30

\* ------------------------------------------------------------------ helpers
None == <<>>
Some(v) == <<v>>
Abs(x) == IF x < 0 THEN -x ELSE x
Times == 0..MaxTime

VARIABLES
  \* _local_file_matches applied to one prepared input
  matchCall,
  \* categorize_media_files applied to one directory
  classifyCall,
  \* probe_video_duration applied to one outcome of the ffprobe call
  probeCall,
  \* playback_loop: its arguments and the machine it runs on
  script, loop, mediaDir, installed,
  \* playback_loop: where it is, its locals and the process it supervises
  ppc, stop_requested, images, videos, vidx, proc, waitTimeout, probed,
  \* playback_loop: what happened (history); stops is how the program has
  \* tried to stop the process it launched last
  cycles, imagesSteps, videosSteps, launches,
  stops, launchLog,
  \* playback_loop: what ffprobe would answer for the video being played
  ffprobe,
  \* playback_loop: the seconds of the time.sleep in progress (0: none)
  sleeping,
  lateClassify,
  aliveProcs,
  \* sync_drive_folder: the world
  disk, remote,
  \* sync_drive_folder: the locals of the running pass
  pc, idx, file_metadata, synced_paths, downloaded_count, skipped_count,
  \* sync_drive_folder: what happened (history)
  passNo, listOutcome, failed, attempted, prevClean, diskAtStart, lastDl,
  \* sync_drive_folder: the entries whose download the last pass left partway
  prevInterrupted,
  \* list_drive_files: the pages the service holds, and the locals of the call
  drivePages, lpc, page_token, files, requested,
  \* main of archive/gdrive2video.py: its arguments, where it is, what happened
  once, sync_interval, mpc, waited, events, stopAt, stopPass, lateSleeps

matchVars == <<matchCall>>
classifyVars == <<classifyCall>>
probeVars == <<probeCall>>
syncVars == <<disk, remote, pc, idx, file_metadata, synced_paths,
              downloaded_count, skipped_count, passNo, listOutcome, failed,
              attempted, prevClean, diskAtStart, lastDl, prevInterrupted>>
playVars == <<script, loop, mediaDir, installed, ppc, stop_requested, images,
              videos, vidx, proc, waitTimeout, probed, cycles, imagesSteps,
              videosSteps, launches,
              stops,
              launchLog,
              ffprobe,
              sleeping,
              lateClassify,
              aliveProcs>>
listVars == <<drivePages, lpc, page_token, files, requested>>
mainVars == <<once, sync_interval, mpc, waited, events, stopAt, stopPass, lateSleeps>>
vars == <<matchVars, classifyVars, probeVars, playVars, syncVars,
         listVars,
         mainVars>>
notSync == <<matchVars, classifyVars, probeVars, playVars,
  listVars,
  mainVars>>
notMatch == <<classifyVars, probeVars, playVars, syncVars,
  listVars,
  mainVars>>
notClassify == <<matchVars, probeVars, playVars, syncVars,
  listVars,
  mainVars>>
notProbe == <<matchVars, classifyVars, playVars, syncVars,
  listVars,
  mainVars>>
notPlay == <<matchVars, classifyVars, probeVars, syncVars,
  listVars,
  mainVars>>
notList == <<matchVars, classifyVars, probeVars, playVars, syncVars,
  mainVars>>
notMain == <<matchVars, classifyVars, probeVars, playVars, syncVars, listVars>>

\* ============================================================ staleness
\* gdrive_sync.py:198-201: the cached value for the name if present,
\* otherwise the value read from disk.
LocalMtime(cached, statMtime) ==
  IF cached = None THEN statMtime ELSE cached[1]

\* gdrive_sync.py:203-208: the drift test.
WithinDriftStrict(local_mtime, remote_ts) ==
  ~(Abs(local_mtime - remote_ts) >= DRIFT_SECONDS * TicksPerSecond)
WithinDrift(local_mtime, remote_ts) ==
  ~(Abs(local_mtime - remote_ts) > DRIFT_SECONDS * TicksPerSecond)

\* gdrive_sync.py:192-208: the value _local_file_matches returns.
LocalFileMatches(exists, cached, statMtime, remote_ts) ==
  IF ~exists THEN FALSE
  ELSE WithinDrift(LocalMtime(cached, statMtime), remote_ts)

\* gdrive_sync.py:195-201: the cache entry for the name after the call.
CacheAfterMatch(exists, cached, statMtime) ==
  IF exists /\ cached = None THEN Some(statMtime) ELSE cached

MatchIdle == [called |-> FALSE, exists |-> FALSE, stat |-> 0, cached |-> None,
              remote_ts |-> 0, result |-> FALSE, cacheAfter |-> None]

InitMatch ==
  \E e \in BOOLEAN, st \in Times, r \in Times,
     c \in {None} \cup {Some(t) : t \in Times} :
    matchCall = [called |-> FALSE, exists |-> e, stat |-> st, cached |-> c,
                 remote_ts |-> r, result |-> FALSE, cacheAfter |-> c]

CallLocalFileMatches ==
  /\ ~matchCall.called
  /\ matchCall' = [matchCall EXCEPT
       !.called = TRUE,
       !.result = LocalFileMatches(matchCall.exists, matchCall.cached,
                                   matchCall.stat, matchCall.remote_ts),
       !.cacheAfter = CacheAfterMatch(matchCall.exists, matchCall.cached,
                                      matchCall.stat)]
  /\ UNCHANGED notMatch

\* ======================================================= media classifier
\* A file name is the sequence of its characters. AsciiOrder lists the
\* characters that occur, in code point order: Python compares paths of one
\* directory by their names, character by character, by code point.
AsciiOrder ==
  <<".", "0", "1", "2", "3", "4", "5", "6", "7", "8", "9",
    "A", "B", "C", "D", "E", "F", "G", "H", "I", "J", "K", "L", "M",
    "N", "O", "P", "Q", "R", "S", "T", "U", "V", "W", "X", "Y", "Z",
    "a", "b", "c", "d", "e", "f", "g", "h", "i", "j", "k", "l", "m",
    "n", "o", "p", "q", "r", "s", "t", "u", "v", "w", "x", "y", "z">>
Code(c) == CHOOSE i \in 1..Len(AsciiOrder) : AsciiOrder[i] = c
IsUpper(c) == Code(c) >= Code("A") /\ Code(c) <= Code("Z")

\* str.lower() on one character and on a string
Lower(c) == IF IsUpper(c) THEN AsciiOrder[Code(c) - Code("A") + Code("a")] ELSE c
LowerSeq(s) == [i \in 1..Len(s) |-> Lower(s[i])]

\* str.__lt__: the first differing character decides, a proper prefix is less
LexLess(a, b) ==
  \E k \in 1..(Len(a) + 1) :
    /\ k <= Len(b)
    /\ \A j \in 1..(k - 1) : a[j] = b[j]
    /\ (k <= Len(a) => Code(a[k]) < Code(b[k]))

\* pathlib's PurePath.suffix: from the last dot on, unless the name has no dot,
\* starts with its only dot, or ends with the dot
LastDot(name) ==
  IF \E i \in 1..Len(name) : name[i] = "."
  THEN CHOOSE i \in 1..Len(name) :
         name[i] = "." /\ \A j \in (i + 1)..Len(name) : name[j] # "."
  ELSE 0
Suffix(name) ==
  IF 1 < LastDot(name) /\ LastDot(name) < Len(name)
  THEN SubSeq(name, LastDot(name), Len(name))
  ELSE <<>>

\* media_player.py:24-25
IMAGE_EXTENSIONS ==
  {<<".", "j", "p", "g">>, <<".", "j", "p", "e", "g">>, <<".", "p", "n", "g">>,
   <<".", "g", "i", "f">>, <<".", "b", "m", "p">>}
VIDEO_EXTENSIONS ==
  {<<".", "m", "p", "4">>, <<".", "m", "o", "v">>, <<".", "m", "k", "v">>,
   <<".", "a", "v", "i">>, <<".", "w", "e", "b", "m">>}

\* archive/gdrive2video.py:47-48
ARCHIVE_IMAGE_EXTENSIONS ==
  {<<".", "j", "p", "g">>, <<".", "j", "p", "e", "g">>, <<".", "p", "n", "g">>}
ARCHIVE_VIDEO_EXTENSIONS ==
  {<<".", "m", "p", "4">>, <<".", "m", "o", "v">>, <<".", "m", "k", "v">>}

\* The entries a media directory may hold: a name and what path.is_file()
\* sees ("file": a regular file; "dir": a directory; "broken": a symlink to
\* nothing).
A_PNG == <<"a", ".", "p", "n", "g">>
B_JPG == <<"B", ".", "J", "P", "G">>
VIDEO_MP4 == <<"v", "i", "d", "e", "o", ".", "m", "p", "4">>
NOTES_TXT == <<"n", "o", "t", "e", "s", ".", "t", "x", "t">>
SUB == <<"s", "u", "b">>
DirPool ==
  {[name |-> A_PNG, kind |-> "file"],
   [name |-> B_JPG, kind |-> "file"],
   [name |-> VIDEO_MP4, kind |-> "file"],
   [name |-> NOTES_TXT, kind |-> "file"],
   [name |-> SUB, kind |-> "dir"],
   [name |-> <<".", "j", "p", "g">>, kind |-> "file"],
   [name |-> <<"c", ".", "g", "i", "f">>, kind |-> "file"],
   [name |-> <<"d", ".", "j", "p", "g">>, kind |-> "dir"],
   [name |-> <<"e", ".", "M", "o", "V">>, kind |-> "file"],
   [name |-> <<"f", ".", "p", "n", "g">>, kind |-> "broken"],
   [name |-> <<"g", ".", "m", "p", "4", ".">>, kind |-> "file"]}

\* media_player.py:64  sorted(media_dir.glob("*")): every entry, hidden ones
\* too, in ascending order
RECURSIVE Sorted(_)
Sorted(S) ==
  IF S = {} THEN <<>>
  ELSE LET first == CHOOSE x \in S : \A y \in S \ {x} : LexLess(x.name, y.name)
       IN <<first>> \o Sorted(S \ {first})

\* media_player.py:65  path.is_file()
IsFile(e) == e.kind = "file"

\* media_player.py:60-72  categorize_media_files
IsImage(e, imgExt) == LowerSeq(Suffix(e.name)) \in imgExt
IsVideo(e, imgExt, vidExt) ==
  LowerSeq(Suffix(e.name)) \notin imgExt /\ LowerSeq(Suffix(e.name)) \in vidExt
NamesOf(seq) == [i \in 1..Len(seq) |-> seq[i].name]
CategorizeCaseSensitive(dir, imgExt, vidExt) ==
  LET ImgC(e) == IsFile(e) /\ Suffix(e.name) \in imgExt
      VidC(e) == IsFile(e) /\ Suffix(e.name) \notin imgExt
                           /\ Suffix(e.name) \in vidExt
  IN [images |-> NamesOf(SelectSeq(Sorted(dir), ImgC)),
      videos |-> NamesOf(SelectSeq(Sorted(dir), VidC))]
CategorizeMediaFiles(dir, imgExt, vidExt) ==
  LET Img(e) == IsFile(e) /\ IsImage(e, imgExt)
      Vid(e) == IsFile(e) /\ IsVideo(e, imgExt, vidExt)
  IN [images |-> NamesOf(SelectSeq(Sorted(dir), Img)),
      videos |-> NamesOf(SelectSeq(Sorted(dir), Vid))]

ClassifyIdle == [called |-> FALSE, dir |-> {}, images |-> <<>>, videos |-> <<>>]

InitClassify ==
  \E d \in SUBSET DirPool :
    classifyCall = [called |-> FALSE, dir |-> d, images |-> <<>>,
                    videos |-> <<>>]

CallCategorize ==
  /\ ~classifyCall.called
  /\ classifyCall' =
       [called |-> TRUE, dir |-> classifyCall.dir,
        images |-> CategorizeMediaFiles(classifyCall.dir, IMAGE_EXTENSIONS,
                                        VIDEO_EXTENSIONS).images,
        videos |-> CategorizeMediaFiles(classifyCall.dir, IMAGE_EXTENSIONS,
                                        VIDEO_EXTENSIONS).videos]
  /\ UNCHANGED notClassify

\* ========================================================= duration prober
\* What ffprobe printed is a sequence of characters of this alphabet (" " is
\* any white space, the newline that ends the line too), at most MaxOutLen long.
ProbeAlphabet == {" ", "-", "0", "2", ".", "N"}
ProbeOutputs == UNION {[1..n -> ProbeAlphabet] : n \in 0..MaxOutLen}

\* media_player.py:78-99  how the ffprobe call ended: FileNotFoundError,
\* CalledProcessError (check=True, non-zero exit), or exit status 0
ProbeTools == {"not_found", "failed", "ok"}

\* str.strip()
RECURSIVE LStrip(_)
LStrip(s) == IF s # <<>> /\ Head(s) = " " THEN LStrip(Tail(s)) ELSE s
RECURSIVE RStrip(_)
RStrip(s) ==
  IF s # <<>> /\ s[Len(s)] = " " THEN RStrip(SubSeq(s, 1, Len(s) - 1)) ELSE s
Strip(s) == RStrip(LStrip(s))

\* float(): over this alphabet, an optional sign, then digits with at most
\* one dot and at least one digit; anything else is a ValueError
IsDigit(c) == c \in {"0", "2"}
DigitVal(c) == IF c = "2" THEN 2 ELSE 0
Unsigned(t) == IF t # <<>> /\ Head(t) = "-" THEN Tail(t) ELSE t
IsFloatLiteral(t) ==
  LET u == Unsigned(t) IN
    /\ \A i \in 1..Len(u) : IsDigit(u[i]) \/ u[i] = "."
    /\ Cardinality({i \in 1..Len(u) : u[i] = "."}) <= 1
    /\ \E i \in 1..Len(u) : IsDigit(u[i])
RECURSIVE Pow10(_)
Pow10(n) == IF n = 0 THEN 1 ELSE 10 * Pow10(n - 1)
RECURSIVE DigitsVal(_)
DigitsVal(ds) ==
  IF ds = <<>> THEN 0
  ELSE 10 * DigitsVal(SubSeq(ds, 1, Len(ds) - 1)) + DigitVal(ds[Len(ds)])

\* The value of a literal, in units of 10^-MaxOutLen seconds
FloatValue(t) ==
  LET u == Unsigned(t)
      dot == IF \E i \in 1..Len(u) : u[i] = "."
             THEN CHOOSE i \in 1..Len(u) : u[i] = "." ELSE Len(u) + 1
      int == SubSeq(u, 1, dot - 1)
      frac == SubSeq(u, dot + 1, Len(u))
      mag == DigitsVal(int) * Pow10(MaxOutLen)
             + DigitsVal(frac) * Pow10(MaxOutLen - Len(frac))
  IN IF t # <<>> /\ Head(t) = "-" THEN 0 - mag ELSE mag

\* media_player.py:75-104  probe_video_duration: None, or the float it returns
ProbeVideoDuration(tool, stdout) ==
  IF tool = "not_found" THEN None
  ELSE IF tool = "failed" THEN None
  ELSE IF IsFloatLiteral(Strip(stdout)) THEN Some(FloatValue(Strip(stdout)))
  ELSE None

ProbeIdle == [called |-> FALSE, tool |-> "ok", stdout |-> <<>>,
              raised |-> FALSE, result |-> None]

InitProbe ==
  \E tl \in ProbeTools, out \in ProbeOutputs :
    probeCall = [called |-> FALSE, tool |-> tl, stdout |-> out,
                 raised |-> FALSE, result |-> None]

\* media_player.py:77-104  every path through the function ends in a return
CallProbe ==
  /\ ~probeCall.called
  /\ probeCall' = [probeCall EXCEPT
       !.called = TRUE,
       !.raised = FALSE,
       !.result = ProbeVideoDuration(probeCall.tool, probeCall.stdout)]
  /\ UNCHANGED notProbe

\* ====================================================== playback scheduler
\* The two scripts that play: media_player.py and archive/gdrive2video.py.
Scripts == {"media_player", "gdrive2video"}

PlayDirNames ==
  {{}, {A_PNG, B_JPG}, {VIDEO_MP4}, {A_PNG, B_JPG, VIDEO_MP4},
   {VIDEO_MP4, <<"e", ".", "M", "o", "V">>, NOTES_TXT},
   {<<"c", ".", "g", "i", "f">>, SUB}}
PlayDirs == {{e \in DirPool : e.name \in ns} : ns \in PlayDirNames}

\* How the ffprobe call for a video may end, and what it printed
ProbeCases ==
  {[tool |-> "not_found", stdout |-> <<>>],
   [tool |-> "failed", stdout |-> <<>>],
   [tool |-> "ok", stdout |-> <<"N">>],
   [tool |-> "ok", stdout |-> <<"2", " ">>],
   [tool |-> "ok", stdout |-> <<"0">>],
   [tool |-> "ok", stdout |-> <<"-", "2">>]}

\* No video is being played: nothing to probe
NoProbe == [tool |-> "none", stdout |-> <<>>]

\* One launch of an external process: video is the position of the video in
\* the list (0 for the slideshow), end is how the launch ended, flag is
\* stop_requested at that moment
Launched(v) == [video |-> v, end |-> "running", flag |-> FALSE]
Ended(log, how, flag) ==
  [log EXCEPT ![Len(log)] = [@ EXCEPT !.end = how, !.flag = flag]]

\* Seconds in the unit of the probed durations
Seconds(n) == n * Pow10(MaxOutLen)

\* media_player.py:178, archive/gdrive2video.py:314  the script's extension tables
Categorize(d) ==
  IF script = "media_player"
  THEN CategorizeMediaFiles(d, IMAGE_EXTENSIONS, VIDEO_EXTENSIONS)
  ELSE CategorizeMediaFiles(d, ARCHIVE_IMAGE_EXTENSIONS, ARCHIVE_VIDEO_EXTENSIONS)

\* media_player.py:155  subprocess.run(command, check=True, timeout=DEFAULT_VIDEO_TIMEOUT)
RunTimeout == Some(Seconds(DEFAULT_VIDEO_TIMEOUT))

\* archive/gdrive2video.py:287  probe_video_duration(video) or DEFAULT_VIDEO_TIMEOUT
TimeoutForUnbounded(p) == p
TimeoutFor(p) ==
  IF p = None \/ p[1] = 0 THEN Some(Seconds(DEFAULT_VIDEO_TIMEOUT)) ELSE p

\* media_player.py:150, archive/gdrive2video.py:276  for video in video_files
NextVideoSkipping(i) == i + 2
NextVideo(i) == i + 1

\* media_player.py:190  if stop_requested: break
BreakAfterImagesNever == FALSE
BreakAfterImages == script = "media_player" /\ stop_requested
\* media_player.py:194  if stop_requested or not loop: break
\* archive/gdrive2video.py:320  playback_loop ends with play_videos
BreakAfterVideosOnFailure ==
  \/ stop_requested \/ ~loop
  \/ ~installed.viewer \/ ~installed.player
  \/ \E k \in 1..Len(launchLog) : launchLog[k].end = "failed"
BreakAfterVideos ==
  IF script = "media_player" THEN stop_requested \/ ~loop ELSE TRUE

\* The display processes that are alive: one more when subprocess.run or Popen
\* has started one (media_player.py:110, 155, archive/gdrive2video.py:281), one
\* less when a wait has seen it exit, or when it was killed: subprocess.run
\* kills and waits at its timeout (media_player.py:155), proc.kill() sends
\* SIGKILL (archive/gdrive2video.py:310), after which the player runs no more
ProcStarted(n) == n + 1
ProcExited(n) == n - 1
ProcKilledStillAlive(n) == n
ProcKilled(n) == n - 1

\* media_player.py:178  the classifications made while the flag was set
ClassifiedLate(n, flag) == IF flag THEN n + 1 ELSE n

\* media_player.py:185-187  if stop_requested: break / continue
AfterBackoffIgnoreStop(flag) == "classify"
AfterBackoff(flag) == IF flag THEN "stopped" ELSE "classify"

PlayIdle ==
  /\ script = "media_player"
  /\ loop = FALSE
  /\ mediaDir = {}
  /\ installed = [viewer |-> FALSE, player |-> FALSE]
  /\ ppc = "off"
  /\ stop_requested = FALSE
  /\ images = <<>>
  /\ videos = <<>>
  /\ vidx = 0
  /\ proc = "none"
  /\ waitTimeout = None
  /\ probed = None
  /\ cycles = 0
  /\ imagesSteps = 0
  /\ videosSteps = 0
  /\ launches = 0
  /\ stops = <<>>
  /\ launchLog = <<>>
  /\ ffprobe = NoProbe
  /\ sleeping = 0
  /\ lateClassify = 0
  /\ aliveProcs = 0

\* media_player.py:165-175, archive/gdrive2video.py:313  playback_loop is entered
InitPlay ==
  /\ script \in Scripts
  /\ loop \in (IF script = "media_player" THEN BOOLEAN ELSE {FALSE})
  /\ mediaDir \in PlayDirs
  /\ installed \in [viewer : BOOLEAN, player : BOOLEAN]
  /\ ppc = "classify"
  /\ stop_requested = FALSE
  /\ images = <<>>
  /\ videos = <<>>
  /\ vidx = 0
  /\ proc = "none"
  /\ waitTimeout = None
  /\ probed = None
  /\ cycles = 0
  /\ imagesSteps = 0
  /\ videosSteps = 0
  /\ launches = 0
  /\ stops = <<>>
  /\ launchLog = <<>>
  /\ ffprobe = NoProbe
  /\ sleeping = 0
  /\ lateClassify = 0
  /\ aliveProcs = 0

\* media_player.py:169-172, archive/gdrive2video.py:388-391  _handle_signal
Signal ==
  /\ ppc \notin {"off", "stopped"}
  /\ ~stop_requested
  /\ stop_requested' = TRUE
  /\ UNCHANGED <<script, loop, mediaDir, installed, ppc, images, videos, vidx,
                 proc, waitTimeout, probed, cycles, imagesSteps, videosSteps,
                 launches,
                 stops,
                 launchLog,
                 ffprobe,
                 sleeping,
                 lateClassify,
                 aliveProcs>>
  /\ UNCHANGED notPlay

\* media_player.py:177-178  the directory is read again in every cycle: what it
\* holds changes while media_player.py runs, gdrive_sync.py being run on its own
DirChange ==
  /\ script = "media_player"
  /\ ppc \notin {"off", "stopped"}
  /\ mediaDir' \in PlayDirs \ {mediaDir}
  /\ UNCHANGED <<script, loop, installed, ppc, stop_requested, images, videos,
                 vidx, proc, waitTimeout, probed, cycles, imagesSteps,
                 videosSteps, launches, stops, launchLog, ffprobe, sleeping,
                 lateClassify,
                 aliveProcs>>
  /\ UNCHANGED notPlay

\* media_player.py:178-189, archive/gdrive2video.py:314-319  the directory is
\* classified and holds media: play_images is called
ClassifyMedia ==
  /\ ppc = "classify"
  /\ cycles < MaxCycles
  /\ Categorize(mediaDir).images # <<>> \/ Categorize(mediaDir).videos # <<>>
  /\ images' = Categorize(mediaDir).images
  /\ videos' = Categorize(mediaDir).videos
  /\ cycles' = cycles + 1
  /\ lateClassify' = ClassifiedLate(lateClassify, stop_requested)
  /\ launchLog' = <<>>
  /\ imagesSteps' = imagesSteps + 1
  /\ ppc' = "images"
  /\ UNCHANGED <<script, loop, mediaDir, installed, stop_requested, vidx, proc,
                 waitTimeout, probed, videosSteps, launches,
                 stops,
                 ffprobe,
                 sleeping,
                 aliveProcs>>
  /\ UNCHANGED notPlay

\* media_player.py:179-184, archive/gdrive2video.py:315-317  no media: return in
\* single-pass mode, otherwise sleep
ClassifyEmpty ==
  /\ ppc = "classify"
  /\ cycles < MaxCycles
  /\ Categorize(mediaDir).images = <<>> /\ Categorize(mediaDir).videos = <<>>
  /\ images' = <<>>
  /\ videos' = <<>>
  /\ cycles' = cycles + 1
  /\ lateClassify' = ClassifiedLate(lateClassify, stop_requested)
  /\ launchLog' = <<>>
  /\ ppc' = IF loop THEN "backoff" ELSE "stopped"
  /\ sleeping' = IF loop THEN BACKOFF_SECONDS ELSE 0
  /\ UNCHANGED <<script, loop, mediaDir, installed, stop_requested, vidx, proc,
                 waitTimeout, probed, imagesSteps, videosSteps, launches,
                 stops,
                 ffprobe,
                 aliveProcs>>
  /\ UNCHANGED notPlay

\* media_player.py:184-187  time.sleep(30) is over
BackoffEnd ==
  /\ ppc = "backoff"
  /\ ppc' = AfterBackoff(stop_requested)
  /\ sleeping' = 0
  /\ UNCHANGED <<script, loop, mediaDir, installed, stop_requested, images,
                 videos, vidx, proc, waitTimeout, probed, cycles, imagesSteps,
                 videosSteps, launches,
                 stops,
                 launchLog,
                 ffprobe,
                 lateClassify,
                 aliveProcs>>
  /\ UNCHANGED notPlay

\* media_player.py:117-120, 107-112  play_images with no image, or the viewer is
\* not installed (FileNotFoundError, logged): nothing is launched
ImagesNothing ==
  /\ ppc = "images"
  /\ images = <<>> \/ ~installed.viewer
  /\ ppc' = "after_images"
  /\ UNCHANGED <<script, loop, mediaDir, installed, stop_requested, images,
                 videos, vidx, proc, waitTimeout, probed, cycles, imagesSteps,
                 videosSteps, launches,
                 stops,
                 launchLog,
                 ffprobe,
                 sleeping,
                 lateClassify,
                 aliveProcs>>
  /\ UNCHANGED notPlay

\* media_player.py:122-142, 107-110  the slideshow is launched; subprocess.run
\* waits for it without a timeout
ImagesLaunch ==
  /\ ppc = "images"
  /\ images # <<>> /\ installed.viewer
  /\ proc' = "running"
  /\ aliveProcs' = ProcStarted(aliveProcs)
  /\ stops' = <<>>
  /\ launchLog' = Append(launchLog, Launched(0))
  /\ waitTimeout' = None
  /\ launches' = launches + 1
  /\ ppc' = "images_wait"
  /\ UNCHANGED <<script, loop, mediaDir, installed, stop_requested, images,
                 videos, vidx, probed, cycles, imagesSteps, videosSteps,
                 ffprobe,
                 sleeping,
                 lateClassify>>
  /\ UNCHANGED notPlay

\* media_player.py:110-114  the viewer exited (a non-zero status is logged)
ImagesExit ==
  /\ ppc = "images_wait"
  /\ proc' = "exited"
  /\ aliveProcs' = ProcExited(aliveProcs)
  /\ \E how \in {"exit", "failed"} :
       launchLog' = Ended(launchLog, how, stop_requested)
  /\ ppc' = "after_images"
  /\ UNCHANGED <<script, loop, mediaDir, installed, stop_requested, images,
                 videos, vidx, waitTimeout, probed, cycles, imagesSteps,
                 videosSteps, launches,
                 stops,
                 ffprobe,
                 sleeping,
                 lateClassify>>
  /\ UNCHANGED notPlay

\* media_player.py:190-193, archive/gdrive2video.py:319-320  after play_images:
\* break, or call play_videos
AfterImages ==
  /\ ppc = "after_images"
  /\ IF BreakAfterImages
     THEN /\ ppc' = "stopped"
          /\ UNCHANGED <<vidx, videosSteps>>
     ELSE /\ ppc' = "videos"
          /\ vidx' = 1
          /\ videosSteps' = videosSteps + 1
  /\ UNCHANGED <<script, loop, mediaDir, installed, stop_requested, images,
                 videos, proc, waitTimeout, probed, cycles, imagesSteps,
                 launches,
                 stops,
                 launchLog,
                 ffprobe,
                 sleeping,
                 lateClassify,
                 aliveProcs>>
  /\ UNCHANGED notPlay

\* media_player.py:146-150, 156-158, archive/gdrive2video.py:272-276, 296-298
\* play_videos returns: no video is left, or the player is not installed
VideosReturn ==
  /\ ppc = "videos"
  /\ vidx > Len(videos) \/ ~installed.player
  /\ ppc' = "after_videos"
  /\ UNCHANGED <<script, loop, mediaDir, installed, stop_requested, images,
                 videos, vidx, proc, waitTimeout, probed, cycles, imagesSteps,
                 videosSteps, launches,
                 stops,
                 launchLog,
                 ffprobe,
                 sleeping,
                 lateClassify,
                 aliveProcs>>
  /\ UNCHANGED notPlay

\* media_player.py:150-155  the player is launched by subprocess.run(timeout=...)
\* archive/gdrive2video.py:276-286  the player is launched by Popen
VideoLaunch ==
  /\ ppc = "videos"
  /\ vidx <= Len(videos) /\ installed.player
  /\ proc' = "running"
  /\ aliveProcs' = ProcStarted(aliveProcs)
  /\ stops' = <<>>
  /\ launchLog' = Append(launchLog, Launched(vidx))
  /\ ffprobe' \in ProbeCases
  /\ launches' = launches + 1
  /\ probed' = None
  /\ IF script = "media_player"
     THEN /\ waitTimeout' = RunTimeout
          /\ ppc' = "video_wait"
     ELSE /\ waitTimeout' = None
          /\ ppc' = "video_probe"
  /\ UNCHANGED <<script, loop, mediaDir, installed, stop_requested, images,
                 videos, vidx, cycles, imagesSteps, videosSteps,
                 sleeping,
                 lateClassify>>
  /\ UNCHANGED notPlay

\* archive/gdrive2video.py:287-289  the duration is probed and proc.wait begins
VideoProbe ==
  /\ ppc = "video_probe"
  /\ probed' = ProbeVideoDuration(ffprobe.tool, ffprobe.stdout)
  /\ waitTimeout' = TimeoutFor(ProbeVideoDuration(ffprobe.tool, ffprobe.stdout))
  /\ ppc' = "video_wait"
  /\ UNCHANGED <<script, loop, mediaDir, installed, stop_requested, images,
                 videos, vidx, proc, cycles, imagesSteps, videosSteps,
                 launches,
                 stops,
                 launchLog,
                 ffprobe,
                 sleeping,
                 lateClassify,
                 aliveProcs>>
  /\ UNCHANGED notPlay

\* media_player.py:155, 161-162  the player exited within the timeout (a
\* non-zero status is logged); archive/gdrive2video.py:289  proc.wait returned
VideoExit ==
  /\ ppc = "video_wait"
  /\ \E how \in {"exit", "failed"} :
       launchLog' = Ended(launchLog, how, stop_requested)
  /\ ffprobe' = NoProbe
  /\ aliveProcs' = ProcExited(aliveProcs)
  /\ IF script = "media_player"
     THEN /\ proc' = "exited"
          /\ vidx' = NextVideo(vidx)
          /\ ppc' = "videos"
     ELSE /\ proc' = "exited"
          /\ vidx' = vidx
          /\ ppc' = "video_cleanup"
  /\ UNCHANGED <<script, loop, mediaDir, installed, stop_requested, images,
                 videos, waitTimeout, probed, cycles, imagesSteps, videosSteps,
                 launches,
                 stops,
                 sleeping,
                 lateClassify>>
  /\ UNCHANGED notPlay

\* media_player.py:155, 159-160  the timeout expired: subprocess.run kills the
\* player and raises TimeoutExpired, which is logged
\* archive/gdrive2video.py:289-295  proc.wait raised TimeoutExpired, the player
\* still runs
VideoTimeout ==
  /\ ppc = "video_wait"
  /\ launchLog' = Ended(launchLog, "timeout", stop_requested)
  /\ ffprobe' = NoProbe
  /\ IF script = "media_player"
     THEN /\ proc' = "killed"
          /\ aliveProcs' = ProcKilled(aliveProcs)
          /\ stops' = <<"kill">>
          /\ vidx' = NextVideo(vidx)
          /\ ppc' = "videos"
     ELSE /\ proc' = "running"
          /\ aliveProcs' = aliveProcs
          /\ stops' = stops
          /\ vidx' = vidx
          /\ ppc' = "video_cleanup"
  /\ UNCHANGED <<script, loop, mediaDir, installed, stop_requested, images,
                 videos, waitTimeout, probed, cycles, imagesSteps, videosSteps,
                 launches,
                 sleeping,
                 lateClassify>>
  /\ UNCHANGED notPlay

\* archive/gdrive2video.py:301-303  finally: the player is no longer running
CleanupDone ==
  /\ ppc = "video_cleanup"
  /\ proc # "running"
  /\ vidx' = NextVideo(vidx)
  /\ ppc' = "videos"
  /\ UNCHANGED <<script, loop, mediaDir, installed, stop_requested, images,
                 videos, proc, waitTimeout, probed, cycles, imagesSteps, videosSteps,
                 launches,
                 stops,
                 launchLog,
                 ffprobe,
                 sleeping,
                 lateClassify,
                 aliveProcs>>
  /\ UNCHANGED notPlay

\* archive/gdrive2video.py:303-308  finally: the player still runs: "q" is
\* written to its stdin and proc.wait(timeout=5) begins
CleanupQuit ==
  /\ ppc = "video_cleanup"
  /\ proc = "running"
  /\ waitTimeout' = Some(Seconds(GRACE_SECONDS))
  /\ stops' = <<"quit">>
  /\ ppc' = "video_grace"
  /\ UNCHANGED <<script, loop, mediaDir, installed, stop_requested, images,
                 videos, vidx, proc, probed, cycles, imagesSteps, videosSteps,
                 launches,
                 launchLog,
                 ffprobe,
                 sleeping,
                 lateClassify,
                 aliveProcs>>
  /\ UNCHANGED notPlay

\* archive/gdrive2video.py:308  the player exited within the grace period
GraceExit ==
  /\ ppc = "video_grace"
  /\ proc' = "exited"
  /\ aliveProcs' = ProcExited(aliveProcs)
  /\ vidx' = NextVideo(vidx)
  /\ ppc' = "videos"
  /\ UNCHANGED <<script, loop, mediaDir, installed, stop_requested, images,
                 videos, waitTimeout, probed, cycles, imagesSteps, videosSteps,
                 launches,
                 stops,
                 launchLog,
                 ffprobe,
                 sleeping,
                 lateClassify>>
  /\ UNCHANGED notPlay

\* archive/gdrive2video.py:304-310  the write of "q" raised, or the grace period
\* expired (TimeoutExpired): proc.kill()
GraceKill ==
  /\ ppc \in {"video_cleanup", "video_grace"}
  /\ proc = "running"
  /\ proc' = "killed"
  /\ aliveProcs' = ProcKilled(aliveProcs)
  /\ stops' = IF ppc = "video_grace"
              THEN stops \o <<"grace_expired", "kill">>
              ELSE <<"quit_failed", "kill">>
  /\ vidx' = NextVideo(vidx)
  /\ ppc' = "videos"
  /\ UNCHANGED <<script, loop, mediaDir, installed, stop_requested, images,
                 videos, waitTimeout, probed, cycles, imagesSteps, videosSteps,
                 launches,
                 launchLog,
                 ffprobe,
                 sleeping,
                 lateClassify>>
  /\ UNCHANGED notPlay

\* media_player.py:194-197, archive/gdrive2video.py:320  after play_videos:
\* break (return), or start over
AfterVideos ==
  /\ ppc = "after_videos"
  /\ ppc' = IF BreakAfterVideos THEN "stopped" ELSE "classify"
  /\ UNCHANGED <<script, loop, mediaDir, installed, stop_requested, images,
                 videos, vidx, proc, waitTimeout, probed, cycles, imagesSteps,
                 videosSteps, launches,
                 stops,
                 launchLog,
                 ffprobe,
                 sleeping,
                 lateClassify,
                 aliveProcs>>
  /\ UNCHANGED notPlay

NextPlay ==
  \/ Signal \/ DirChange \/ ClassifyMedia \/ ClassifyEmpty \/ BackoffEnd
  \/ ImagesNothing \/ ImagesLaunch \/ ImagesExit \/ AfterImages
  \/ VideosReturn \/ VideoLaunch \/ VideoProbe \/ VideoExit \/ VideoTimeout
  \/ CleanupDone \/ CleanupQuit \/ GraceExit \/ GraceKill
  \/ AfterVideos

\* ============================================================ drive listing
\* What the service holds: the listing of the folder cut into pages, a page
\* being a sequence of items (an empty page is possible); the items are numbered
\* in the order of the listing.
PageSizes == UNION {[1..n -> 0..MaxPageSize] : n \in 1..MaxPages}
RECURSIVE SumTo(_, _)
SumTo(sz, k) == IF k = 0 THEN 0 ELSE sz[k] + SumTo(sz, k - 1)
PagesOf(sz) ==
  [k \in 1..Len(sz) |-> [j \in 1..sz[k] |-> [id |-> SumTo(sz, k - 1) + j]]]
DrivePageSets == {PagesOf(sz) : sz \in PageSizes}

\* gdrive_sync.py:161-172  files().list(pageToken=page_token).execute(): no token
\* asks for the first page; the response names the page that follows, if any
Response(token) ==
  LET k == IF token = None THEN 1 ELSE token[1]
  IN  [files |-> drivePages[k],
       nextPageToken |-> IF k < Len(drivePages) THEN Some(k + 1) ELSE None]

\* gdrive_sync.py:177-185  DriveFile(file_id=item["id"], ...)
MakeDriveFile(item) == [file_id |-> item.id]

\* gdrive_sync.py:173-185  for item in response.get("files", []): files.append(...)
AccumulateLastPage(acc, items) ==
  [j \in 1..Len(items) |-> MakeDriveFile(items[j])]
Accumulate(acc, items) ==
  acc \o [j \in 1..Len(items) |-> MakeDriveFile(items[j])]

ListIdle ==
  /\ drivePages = <<>>
  /\ lpc = "off"
  /\ page_token = None
  /\ files = <<>>
  /\ requested = <<>>

\* gdrive_sync.py:152-158  files = [], page_token = None
InitList ==
  /\ drivePages \in DrivePageSets
  /\ lpc = "request"
  /\ page_token = None
  /\ files = <<>>
  /\ requested = <<>>

\* gdrive_sync.py:160-189  one turn of the while loop: a page is requested, its
\* items are appended, and the loop ends (return files) if the response has no
\* token
ListPage ==
  /\ lpc = "request"
  /\ requested' = Append(requested, page_token)
  /\ files' = Accumulate(files, Response(page_token).files)
  /\ page_token' = Response(page_token).nextPageToken
  /\ lpc' = IF Response(page_token).nextPageToken = None
            THEN "returned" ELSE "request"
  /\ UNCHANGED drivePages
  /\ UNCHANGED notList

\* gdrive_sync.py:161-172  execute() raised: the exception leaves
\* list_drive_files, nothing is returned
ListRaise ==
  /\ lpc = "request"
  /\ requested' = Append(requested, page_token)
  /\ lpc' = "raised"
  /\ UNCHANGED <<drivePages, page_token, files>>
  /\ UNCHANGED notList

NextList == ListPage \/ ListRaise

\* ============================================================ sync engine
Names == {"a.jpg", "b.mp4"}

\* gdrive_sync.py:303  the MIME type of a nested folder; any other type is a file
FOLDER_MIME == "application/vnd.google-apps.folder"
FILE_MIME == "image/jpeg"

\* gdrive_sync.py:59-67  DriveFile (file_id is the entry's place in the listing)
RemoteTimes == {0, MaxTime}
Entries ==
  [name : Names, modified_time : RemoteTimes, mime_type : {FILE_MIME}]
  \cup [name : {"a.jpg"}, modified_time : {0}, mime_type : {FOLDER_MIME}]
Listings == UNION {[1..n -> Entries] : n \in 0..MaxEntries}

\* A path of the media directory: absent, or a file with its st_mtime, what it
\* holds ("local": not written by a sync; "partial": opened and not completely
\* written; "complete": every byte of the remote entry `id`) and what set the
\* st_mtime last ("write": a write at that time; "utime": os.utime).
NoFile == [exists |-> FALSE, mtime |-> 0, content |-> "none", id |-> 0,
           stamp |-> "none"]
LocalFile(t) == [exists |-> TRUE, mtime |-> t, content |-> "local", id |-> 0,
                 stamp |-> "write"]
NoDl == [idx |-> 0, outcome |-> "none", opened |-> FALSE, file |-> NoFile]

\* gdrive_sync.py:307  target_path = media_dir / entry.name
TargetName(entry) == entry.name

\* gdrive_sync.py:216  io.FileIO(destination, "wb"): creates or truncates
OpenWBPrune(d, name, t) ==
  [n \in DOMAIN d |->
     IF n = name
     THEN [exists |-> TRUE, mtime |-> t, content |-> "partial", id |-> 0,
           stamp |-> "write"]
     ELSE NoFile]
OpenWB(d, name, t) ==
  [d EXCEPT ![name] = [exists |-> TRUE, mtime |-> t, content |-> "partial",
                       id |-> 0, stamp |-> "write"]]

\* gdrive_sync.py:217-220  the chunk loop ran to done = True, the file is closed
WriteChunks(d, name, id) ==
  [d EXCEPT ![name].content = "complete", ![name].id = id]

\* gdrive_sync.py:223  os.utime(destination, (time.time(), remote timestamp))
UtimeSwapped(d, name, remote_ts) == [d EXCEPT ![name].stamp = "utime"]
Utime(d, name, remote_ts) ==
  [d EXCEPT ![name].mtime = remote_ts, ![name].stamp = "utime"]

IsFolderNever(entry) == FALSE
IsFolder(entry) == entry.mime_type = FOLDER_MIME
NonFolderIdx == {i \in 1..Len(remote) : ~IsFolder(remote[i])}
NonFolderNames == {TargetName(remote[i]) : i \in NonFolderIdx}

\* gdrive_sync.py:308  _local_file_matches(target_path, entry, file_metadata)
EntryMatches(entry) ==
  LocalFileMatches(disk[TargetName(entry)].exists,
                   file_metadata[TargetName(entry)],
                   disk[TargetName(entry)].mtime, entry.modified_time)
CacheAfterEntry(entry) ==
  [file_metadata EXCEPT ![TargetName(entry)] =
     CacheAfterMatch(disk[TargetName(entry)].exists,
                     file_metadata[TargetName(entry)],
                     disk[TargetName(entry)].mtime)]

SyncIdle ==
  /\ disk = [n \in Names |-> NoFile]
  /\ remote = <<>>
  /\ pc = "off"
  /\ idx = 0
  /\ file_metadata = [n \in Names |-> None]
  /\ synced_paths = <<>>
  /\ downloaded_count = 0
  /\ skipped_count = 0
  /\ passNo = 0
  /\ listOutcome = "none"
  /\ failed = {}
  /\ attempted = {}
  /\ prevClean = FALSE
  /\ diskAtStart = [n \in Names |-> NoFile]
  /\ lastDl = NoDl
  /\ prevInterrupted = {}

InitSync ==
  /\ disk \in [Names -> {NoFile} \cup {LocalFile(t) : t \in RemoteTimes}]
  /\ remote \in Listings
  /\ pc = "idle"
  /\ idx = 0
  /\ file_metadata = [n \in Names |-> None]
  /\ synced_paths = <<>>
  /\ downloaded_count = 0
  /\ skipped_count = 0
  /\ passNo = 0
  /\ listOutcome = "none"
  /\ failed = {}
  /\ attempted = {}
  /\ prevClean = FALSE
  /\ diskAtStart = disk
  /\ lastDl = NoDl
  /\ prevInterrupted = {}

\* gdrive_sync.py:216-220  the entries whose download failed in this pass after
\* the destination had been opened for writing
Interrupted ==
  {i \in failed : ~(lastDl.idx = i /\ lastDl.outcome = "other_error"
                                   /\ ~lastDl.opened)}

\* gdrive_sync.py:286-290  a pass begins; nothing of the last pass is kept but
\* the disk. (A pass that raised ended its process; the next run starts anew.)
SyncStart ==
  /\ pc \in {"idle", "returned", "raised"}
  /\ passNo < MaxPasses
  /\ passNo' = passNo + 1
  /\ prevClean' = (pc = "returned" /\ listOutcome = "ok" /\ failed = {})
  /\ prevInterrupted' = Interrupted
  /\ pc' = "listing"
  /\ idx' = 0
  /\ file_metadata' = [n \in Names |-> None]
  /\ synced_paths' = <<>>
  /\ downloaded_count' = 0
  /\ skipped_count' = 0
  /\ listOutcome' = "none"
  /\ failed' = {}
  /\ attempted' = {}
  /\ diskAtStart' = disk
  /\ lastDl' = NoDl
  /\ UNCHANGED notSync
  /\ UNCHANGED <<disk, remote>>

\* gdrive_sync.py:292-300  list_drive_files returned the listing
ListOk ==
  /\ pc = "listing"
  /\ pc' = "loop"
  /\ idx' = 1
  /\ listOutcome' = "ok"
  /\ UNCHANGED notSync
  /\ UNCHANGED <<disk, remote, file_metadata, synced_paths,
                 downloaded_count, skipped_count, passNo, failed, attempted,
                 prevClean, diskAtStart, lastDl,
                 prevInterrupted>>

\* gdrive_sync.py:294-296  except HttpError: return [], 0, 0
ListHttpError ==
  /\ pc = "listing"
  /\ pc' = "returned"
  /\ listOutcome' = "http_error"
  /\ UNCHANGED notSync
  /\ UNCHANGED <<disk, remote, idx, file_metadata, synced_paths,
                 downloaded_count, skipped_count, passNo, failed, attempted,
                 prevClean, diskAtStart, lastDl,
                 prevInterrupted>>

\* gdrive_sync.py:291-296  the listing failed with an exception that is not an
\* HttpError (the transport: no route, timeout, connection reset): no except
\* clause matches and it leaves sync_drive_folder.
ListOtherError ==
  /\ pc = "listing"
  /\ pc' = "raised"
  /\ listOutcome' = "other_error"
  /\ UNCHANGED notSync
  /\ UNCHANGED <<disk, remote, idx, file_metadata, synced_paths,
                 downloaded_count, skipped_count, passNo, failed, attempted,
                 prevClean, diskAtStart, lastDl,
                 prevInterrupted>>

\* gdrive_sync.py:303-305  a nested folder: continue
SkipFolder ==
  /\ pc = "loop"
  /\ idx <= Len(remote)
  /\ IsFolder(remote[idx])
  /\ idx' = idx + 1
  /\ lastDl' = NoDl
  /\ UNCHANGED notSync
  /\ UNCHANGED <<disk, remote, pc, file_metadata, synced_paths,
                 downloaded_count, skipped_count, passNo, listOutcome, failed,
                 attempted, prevClean, diskAtStart,
                 prevInterrupted>>

\* gdrive_sync.py:308, 316-320  up to date: counted as skipped and recorded
SkipUpToDate ==
  /\ pc = "loop"
  /\ idx <= Len(remote)
  /\ ~IsFolder(remote[idx])
  /\ EntryMatches(remote[idx])
  /\ file_metadata' = CacheAfterEntry(remote[idx])
  /\ skipped_count' = skipped_count + 1
  /\ synced_paths' = Append(synced_paths, TargetName(remote[idx]))
  /\ idx' = idx + 1
  /\ lastDl' = NoDl
  /\ UNCHANGED notSync
  /\ UNCHANGED <<disk, remote, pc, downloaded_count, passNo, listOutcome,
                 failed, attempted, prevClean, diskAtStart,
                 prevInterrupted>>

\* gdrive_sync.py:308-310, 211-214  missing or stale: download_file is entered
StartDownload ==
  /\ pc = "loop"
  /\ idx <= Len(remote)
  /\ ~IsFolder(remote[idx])
  /\ ~EntryMatches(remote[idx])
  /\ file_metadata' = CacheAfterEntry(remote[idx])
  /\ attempted' = attempted \cup {idx}
  /\ lastDl' = [idx |-> idx, outcome |-> "running", opened |-> FALSE,
                file |-> NoFile]
  /\ pc' = "dl_open"
  /\ UNCHANGED notSync
  /\ UNCHANGED <<disk, remote, idx, synced_paths, downloaded_count,
                 skipped_count, passNo, listOutcome, failed, prevClean,
                 diskAtStart,
                 prevInterrupted>>

\* gdrive_sync.py:216  the destination is opened for writing; its st_mtime is
\* the wall clock's time of the write (time.time() is not monotonic: any t)
DlOpen ==
  /\ pc = "dl_open"
  /\ \E t \in Times : disk' = OpenWB(disk, TargetName(remote[idx]), t)
  /\ lastDl' = [lastDl EXCEPT !.opened = TRUE]
  /\ pc' = "dl_chunk"
  /\ UNCHANGED notSync
  /\ UNCHANGED <<remote, idx, file_metadata, synced_paths, downloaded_count,
                 skipped_count, passNo, listOutcome, failed, attempted,
                 prevClean, diskAtStart,
                 prevInterrupted>>

\* gdrive_sync.py:217-220  every chunk arrived and was written
DlChunks ==
  /\ pc = "dl_chunk"
  /\ disk' = WriteChunks(disk, TargetName(remote[idx]), idx)
  /\ pc' = "dl_utime"
  /\ UNCHANGED notSync
  /\ UNCHANGED <<remote, idx, file_metadata, synced_paths, downloaded_count,
                 skipped_count, passNo, listOutcome, failed, attempted,
                 prevClean, diskAtStart, lastDl,
                 prevInterrupted>>

\* gdrive_sync.py:223, 311-312, 320  the stamp, then back in the loop
DlUtime ==
  /\ pc = "dl_utime"
  /\ disk' = Utime(disk, TargetName(remote[idx]), remote[idx].modified_time)
  /\ lastDl' = [idx |-> idx, outcome |-> "ok", opened |-> TRUE,
                file |-> disk'[TargetName(remote[idx])]]
  /\ downloaded_count' = downloaded_count + 1
  /\ synced_paths' = Append(synced_paths, TargetName(remote[idx]))
  /\ idx' = idx + 1
  /\ pc' = "loop"
  /\ UNCHANGED notSync
  /\ UNCHANGED <<remote, file_metadata, skipped_count, passNo,
                 listOutcome, failed, attempted, prevClean, diskAtStart,
                 prevInterrupted>>

\* gdrive_sync.py:315  continue: the for loop goes on with the next entry
ContinueSameEntry(i) == i
ContinueAfterFailure(i) == i + 1

\* gdrive_sync.py:220, 313-315  next_chunk raised HttpError: logged, continue
DlHttpError ==
  /\ pc = "dl_chunk"
  /\ failed' = failed \cup {idx}
  /\ lastDl' = [idx |-> idx, outcome |-> "http_error", opened |-> TRUE,
                file |-> disk[TargetName(remote[idx])]]
  /\ idx' = ContinueAfterFailure(idx)
  /\ pc' = "loop"
  /\ UNCHANGED notSync
  /\ UNCHANGED <<disk, remote, file_metadata, synced_paths,
                 downloaded_count, skipped_count, passNo, listOutcome,
                 attempted, prevClean, diskAtStart,
                 prevInterrupted>>

\* gdrive_sync.py:216-220, 309-315  the open or a chunk failed with an exception
\* that is not an HttpError (OSError on the write: disk full, permission;
\* the transport: timeout, connection reset): except HttpError does not match
\* and it leaves sync_drive_folder.
DlOtherError ==
  /\ pc \in {"dl_open", "dl_chunk"}
  /\ failed' = failed \cup {idx}
  /\ lastDl' = [idx |-> idx, outcome |-> "other_error",
                opened |-> lastDl.opened,
                file |-> disk[TargetName(remote[idx])]]
  /\ pc' = "raised"
  /\ UNCHANGED notSync
  /\ UNCHANGED <<disk, remote, idx, file_metadata, synced_paths,
                 downloaded_count, skipped_count, passNo, listOutcome,
                 attempted, prevClean, diskAtStart,
                 prevInterrupted>>

\* gdrive_sync.py:302, 322-329  the listing is exhausted: return
SyncReturn ==
  /\ pc = "loop"
  /\ idx > Len(remote)
  /\ pc' = "returned"
  /\ lastDl' = NoDl
  /\ UNCHANGED notSync
  /\ UNCHANGED <<disk, remote, idx, file_metadata, synced_paths,
                 downloaded_count, skipped_count, passNo, listOutcome, failed,
                 attempted, prevClean, diskAtStart,
                 prevInterrupted>>

NextSync ==
  \/ SyncStart \/ ListOk \/ ListHttpError \/ ListOtherError
  \/ SkipFolder \/ SkipUpToDate \/ StartDownload
  \/ DlOpen \/ DlChunks \/ DlUtime \/ DlHttpError \/ DlOtherError
  \/ SyncReturn

\* ============================================================= outer driver
\* main of archive/gdrive2video.py: sync_drive_folder, playback_loop and the wait
\* between two cycles, in one process. The sync engine and the playback
\* scheduler above are the two calls it makes.

\* archive/gdrive2video.py:200-202  the path of a file of the media directory
NameChars ==
  [n \in Names |->
     IF n = "a.jpg" THEN <<"a", ".", "j", "p", "g">>
     ELSE <<"b", ".", "m", "p", "4">>]
DirOfDisk(d) ==
  {[name |-> NameChars[n], kind |-> "file"] : n \in {x \in Names : d[x].exists}}

\* The calls of sync_drive_folder main has made
SyncCalls == Cardinality({k \in 1..Len(events) : events[k] = "sync_begin"})

\* Where main is while it waits between two cycles
WaitPositions == {"wait", "sleep_call", "sleeping"}
SyncRunning == pc \notin {"off", "idle", "returned", "raised"}
PlayRunning == ppc \notin {"off", "stopped"}

\* archive/gdrive2video.py:402  if args.once or stop_requested: break
BreakAfterPlaybackNever(o, flag) == FALSE
BreakAfterPlayback(o, flag) == o \/ flag

\* archive/gdrive2video.py:406-408  the for loop is exhausted, or it breaks
WaitOverIgnoreStop(n, interval, flag) == n >= interval
WaitOver(n, interval, flag) == n >= interval \/ flag

\* The listings of the folder main is run against: nothing, one image, an image
\* and a video, a nested folder and a video
ImageEntry ==
  [name |-> "a.jpg", modified_time |-> MaxTime, mime_type |-> FILE_MIME]
VideoEntry ==
  [name |-> "b.mp4", modified_time |-> MaxTime, mime_type |-> FILE_MIME]
FolderEntry ==
  [name |-> "a.jpg", modified_time |-> 0, mime_type |-> FOLDER_MIME]
MainListings ==
  {<<>>, <<ImageEntry>>, <<ImageEntry, VideoEntry>>, <<FolderEntry, VideoEntry>>}

MainIdle ==
  /\ once = FALSE
  /\ sync_interval = 0
  /\ mpc = "off"
  /\ waited = 0
  /\ events = <<>>
  /\ stopAt = "none"
  /\ stopPass = 0
  /\ lateSleeps = 0

\* The playback scheduler as main finds it: playback_loop not yet called
PlayNotCalled ==
  /\ script = "gdrive2video"
  /\ loop = FALSE
  /\ mediaDir = {}
  /\ installed = [viewer |-> TRUE, player |-> TRUE]
  /\ ppc = "off"
  /\ stop_requested = FALSE
  /\ images = <<>>
  /\ videos = <<>>
  /\ vidx = 0
  /\ proc = "none"
  /\ waitTimeout = None
  /\ probed = None
  /\ cycles = 0
  /\ imagesSteps = 0
  /\ videosSteps = 0
  /\ launches = 0
  /\ stops = <<>>
  /\ launchLog = <<>>
  /\ ffprobe = NoProbe
  /\ sleeping = 0
  /\ lateClassify = 0
  /\ aliveProcs = 0

\* archive/gdrive2video.py:378-394  the arguments are parsed, the handlers are
\* installed; the media directory is empty
InitMain ==
  /\ once \in BOOLEAN
  /\ sync_interval \in {0, MaxInterval}
  /\ mpc = "top"
  /\ waited = 0
  /\ events = <<>>
  /\ stopAt = "none"
  /\ stopPass = 0
  /\ lateSleeps = 0
  /\ PlayNotCalled
  /\ InitSync
  /\ disk = [n \in Names |-> NoFile]
  /\ remote \in MainListings

\* archive/gdrive2video.py:388-391  _handle_signal
MainSignal ==
  /\ mpc \notin {"off", "exit", "crashed"}
  /\ ~stop_requested
  /\ stop_requested' = TRUE
  /\ stopAt' = mpc
  /\ stopPass' = passNo
  /\ UNCHANGED <<once, sync_interval, mpc, waited, events, lateSleeps>>
  /\ UNCHANGED <<script, loop, mediaDir, installed, ppc, images, videos, vidx,
                 proc, waitTimeout, probed, cycles, imagesSteps, videosSteps,
                 launches, stops, launchLog, ffprobe, sleeping,
                 lateClassify, aliveProcs>>
  /\ UNCHANGED <<matchVars, classifyVars, probeVars, syncVars, listVars>>

\* archive/gdrive2video.py:396-397  while True: sync_drive_folder is called
MainCallSync ==
  /\ mpc = "top"
  /\ passNo < MaxPasses
  /\ mpc' = "sync"
  /\ events' = Append(events, "sync_begin")
  /\ UNCHANGED <<once, sync_interval, waited, stopAt, stopPass, lateSleeps>>
  /\ UNCHANGED notMain

\* archive/gdrive2video.py:170-172  the pass of the sync engine begins
MainSyncStart ==
  /\ mpc = "sync"
  /\ passNo < SyncCalls
  /\ SyncStart

\* archive/gdrive2video.py:173-195  the pass of the sync engine goes on
MainSyncStep ==
  /\ mpc = "sync"
  /\ passNo = SyncCalls
  /\ \/ ListOk \/ ListHttpError \/ ListOtherError
     \/ SkipFolder \/ SkipUpToDate \/ StartDownload
     \/ DlOpen \/ DlChunks \/ DlUtime \/ DlHttpError \/ DlOtherError
     \/ SyncReturn

\* archive/gdrive2video.py:397  an exception left sync_drive_folder: main has no
\* handler, the process ends
MainSyncRaised ==
  /\ mpc = "sync"
  /\ pc = "raised"
  /\ passNo = SyncCalls
  /\ mpc' = "crashed"
  /\ UNCHANGED <<once, sync_interval, waited, events, stopAt, stopPass,
                 lateSleeps>>
  /\ UNCHANGED notMain

\* archive/gdrive2video.py:397-400  sync_drive_folder returned: playback_loop is
\* called on the media directory as the pass left it
MainCallPlayback ==
  /\ mpc = "sync"
  /\ pc = "returned"
  /\ passNo = SyncCalls
  /\ mpc' = "playback"
  /\ events' = events \o <<"sync_end", "play_begin">>
  /\ ppc' = "classify"
  /\ mediaDir' = DirOfDisk(disk)
  /\ UNCHANGED <<script, loop, installed, stop_requested, images, videos, vidx,
                 proc, waitTimeout, probed, cycles, imagesSteps, videosSteps,
                 launches, stops, launchLog, ffprobe, sleeping,
                 lateClassify, aliveProcs>>
  /\ UNCHANGED <<once, sync_interval, waited, stopAt, stopPass, lateSleeps>>
  /\ UNCHANGED <<matchVars, classifyVars, probeVars, syncVars, listVars>>

\* archive/gdrive2video.py:313-320  playback_loop goes on
MainPlaybackStep ==
  /\ mpc = "playback"
  /\ \/ ClassifyMedia \/ ClassifyEmpty
     \/ ImagesNothing \/ ImagesLaunch \/ ImagesExit \/ AfterImages
     \/ VideosReturn \/ VideoLaunch \/ VideoProbe \/ VideoExit \/ VideoTimeout
     \/ CleanupDone \/ CleanupQuit \/ GraceExit \/ GraceKill
     \/ AfterVideos

\* archive/gdrive2video.py:400-405  playback_loop returned (its locals are
\* gone): break, or begin the wait
MainAfterPlayback ==
  /\ mpc = "playback"
  /\ ppc = "stopped"
  /\ mpc' = IF BreakAfterPlayback(once, stop_requested) THEN "exit" ELSE "wait"
  /\ events' = IF BreakAfterPlayback(once, stop_requested)
               THEN Append(events, "play_end")
               ELSE events \o <<"play_end", "wait_begin">>
  /\ waited' = 0
  /\ ppc' = "off"
  /\ mediaDir' = {}
  /\ images' = <<>>
  /\ videos' = <<>>
  /\ vidx' = 0
  /\ proc' = "none"
  /\ waitTimeout' = None
  /\ probed' = None
  /\ cycles' = 0
  /\ imagesSteps' = 0
  /\ videosSteps' = 0
  /\ launches' = 0
  /\ stops' = <<>>
  /\ launchLog' = <<>>
  /\ lateClassify' = 0
  /\ aliveProcs' = 0
  /\ UNCHANGED <<script, loop, installed, stop_requested, ffprobe, sleeping>>
  /\ UNCHANGED <<once, sync_interval, stopAt, stopPass, lateSleeps>>
  /\ UNCHANGED <<matchVars, classifyVars, probeVars, syncVars, listVars>>

\* archive/gdrive2video.py:406-408  for _ in range(sync_interval): if
\* stop_requested: break
MainWaitCheck ==
  /\ mpc = "wait"
  /\ mpc' = IF WaitOver(waited, sync_interval, stop_requested)
            THEN "after_wait" ELSE "sleep_call"
  /\ UNCHANGED <<once, sync_interval, waited, events, stopAt, stopPass,
                 lateSleeps>>
  /\ UNCHANGED notMain

\* archive/gdrive2video.py:409  time.sleep(1) begins
MainSleepBegin ==
  /\ mpc = "sleep_call"
  /\ mpc' = "sleeping"
  /\ UNCHANGED <<once, sync_interval, waited, events, stopAt, stopPass,
                 lateSleeps>>
  /\ UNCHANGED notMain

\* archive/gdrive2video.py:409  time.sleep(1) is over
MainSleepEnd ==
  /\ mpc = "sleeping"
  /\ mpc' = "wait"
  /\ waited' = waited + 1
  /\ lateSleeps' = IF stop_requested THEN lateSleeps + 1 ELSE lateSleeps
  /\ UNCHANGED <<once, sync_interval, events, stopAt, stopPass>>
  /\ UNCHANGED notMain

\* archive/gdrive2video.py:410-411  if stop_requested: break, else the loop
\* starts over
MainAfterWait ==
  /\ mpc = "after_wait"
  /\ mpc' = IF stop_requested THEN "exit" ELSE "top"
  /\ events' = Append(events, "wait_end")
  /\ UNCHANGED <<once, sync_interval, waited, stopAt, stopPass, lateSleeps>>
  /\ UNCHANGED notMain

NextMain ==
  \/ MainSignal \/ MainCallSync \/ MainSyncStart \/ MainSyncStep
  \/ MainSyncRaised \/ MainCallPlayback \/ MainPlaybackStep
  \/ MainAfterPlayback \/ MainWaitCheck \/ MainSleepBegin \/ MainSleepEnd
  \/ MainAfterWait

\* ========================================================= specifications
Init ==
  /\ InitSync
  /\ matchCall = MatchIdle
  /\ classifyCall = ClassifyIdle
  /\ probeCall = ProbeIdle
  /\ PlayIdle
  /\ ListIdle
  /\ MainIdle

Spec == Init /\ [][NextSync]_vars

NextMatch == CallLocalFileMatches

InitMatchSpec ==
  /\ InitMatch
  /\ SyncIdle
  /\ classifyCall = ClassifyIdle
  /\ probeCall = ProbeIdle
  /\ PlayIdle
  /\ ListIdle
  /\ MainIdle

SpecMatch == InitMatchSpec /\ [][NextMatch]_vars

NextClassify == CallCategorize

InitClassifySpec ==
  /\ InitClassify
  /\ SyncIdle
  /\ matchCall = MatchIdle
  /\ probeCall = ProbeIdle
  /\ PlayIdle
  /\ ListIdle
  /\ MainIdle

SpecClassify == InitClassifySpec /\ [][NextClassify]_vars

NextProbe == CallProbe

InitProbeSpec ==
  /\ InitProbe
  /\ SyncIdle
  /\ matchCall = MatchIdle
  /\ classifyCall = ClassifyIdle
  /\ PlayIdle
  /\ ListIdle
  /\ MainIdle

InitPlaySpec ==
  /\ InitPlay
  /\ SyncIdle
  /\ matchCall = MatchIdle
  /\ classifyCall = ClassifyIdle
  /\ probeCall = ProbeIdle
  /\ ListIdle
  /\ MainIdle

SpecPlay == InitPlaySpec /\ [][NextPlay]_vars

SpecProbe == InitProbeSpec /\ [][NextProbe]_vars

InitListSpec ==
  /\ InitList
  /\ SyncIdle
  /\ matchCall = MatchIdle
  /\ classifyCall = ClassifyIdle
  /\ probeCall = ProbeIdle
  /\ PlayIdle
  /\ MainIdle

SpecList == InitListSpec /\ [][NextList]_vars

InitMainSpec ==
  /\ InitMain
  /\ matchCall = MatchIdle
  /\ classifyCall = ClassifyIdle
  /\ probeCall = ProbeIdle
  /\ ListIdle

SpecMain == InitMainSpec /\ [][NextMain]_vars

\* ================================================================ claims
DiffTicks(a, b) == IF a >= b THEN a - b ELSE b - a
MatchLocal ==
  IF matchCall.cached # None THEN matchCall.cached[1] ELSE matchCall.stat

\* C1: _local_file_matches returns false when the path does not exist; when it
\* exists it returns true exactly when |local mtime - remote modifiedTime| is at
\* most 1 second (true at exactly 1 s, false at 1.5 s), the local mtime being
\* the cached value for the name if there is one and the disk's otherwise.
C1_LocalFileMatches ==
  matchCall.called =>
    LET diff == DiffTicks(MatchLocal, matchCall.remote_ts) IN
      /\ ~matchCall.exists => ~matchCall.result
      /\ matchCall.exists => (matchCall.result <=> diff <= TicksPerSecond)
      /\ matchCall.exists /\ diff = TicksPerSecond => matchCall.result
      /\ matchCall.exists /\ 2 * diff = 3 * TicksPerSecond => ~matchCall.result

\* C1 witness: the file exists, the cache holds a value exactly 1 s from the
\* remote time while the disk's value is further away, and the call said true.
C1_Witness ==
  /\ matchCall.called
  /\ matchCall.exists
  /\ matchCall.cached # None
  /\ DiffTicks(matchCall.cached[1], matchCall.remote_ts) = TicksPerSecond
  /\ DiffTicks(matchCall.stat, matchCall.remote_ts) > TicksPerSecond
  /\ matchCall.result

\* C2: after a pass in which every download succeeded, the next pass over the
\* same listing attempts no download, reports downloaded = 0 and reports every
\* non-folder entry as skipped.
C2_SecondPassDownloadsNothing ==
  (prevClean /\ listOutcome = "ok") =>
    /\ attempted = {}
    /\ pc = "returned" =>
         /\ downloaded_count = 0
         /\ skipped_count = Cardinality(NonFolderIdx)

\* C3: a failed download of one entry never makes sync_drive_folder raise; the
\* pass goes on, and its result counts exactly the entries that did not fail.
C3_DownloadFailureIsolated ==
  /\ failed # {} => pc # "raised"
  /\ (pc = "returned" /\ listOutcome = "ok") =>
       /\ Len(synced_paths) = Cardinality(NonFolderIdx \ failed)
       /\ downloaded_count = Cardinality(attempted \ failed)
       /\ downloaded_count + skipped_count = Len(synced_paths)

\* C4: a failed listing never makes sync_drive_folder raise: it returns the
\* empty outcome, attempts no download and leaves the local files as they were.
C4_ListingFailureEmptyOutcome ==
  listOutcome \in {"http_error", "other_error"} =>
    /\ pc = "returned"
    /\ synced_paths = <<>>
    /\ downloaded_count = 0
    /\ skipped_count = 0
    /\ attempted = {}
    /\ disk = diskAtStart

\* C5: a pass never changes a local file whose name is not the name of a
\* non-folder entry of the listing; with no such entry at all the directory is
\* left as it was and the result is empty.
C5_LocalOnlyFilesUntouched ==
  /\ \A n \in Names \ NonFolderNames : disk[n] = diskAtStart[n]
  /\ (pc = "returned" /\ NonFolderIdx = {}) =>
       /\ disk = diskAtStart
       /\ synced_paths = <<>>
       /\ downloaded_count = 0
       /\ skipped_count = 0

\* C5 witness: a pass that downloaded something has returned, and a local file
\* that no entry names is still there.
C5_Witness ==
  /\ pc = "returned"
  /\ downloaded_count > 0
  /\ \E n \in Names \ NonFolderNames : disk[n].exists

\* C6: in single-pass mode a pass of media_player's playback_loop over a
\* directory that holds media runs the images step once and the videos step
\* once before the loop ends, whether or not cancellation was requested.
C6_SinglePassOneOfEach ==
  (/\ script = "media_player"
   /\ ~loop
   /\ ppc = "stopped"
   /\ (images # <<>> \/ videos # <<>>)) =>
     /\ imagesSteps = 1
     /\ videosSteps = 1

\* C7: play_videos never waits on a video player without a timeout, and when no
\* duration was probed for the video the wait that follows the launch is bounded
\* by DEFAULT_VIDEO_TIMEOUT.
C7_VideoWaitBounded ==
  /\ ppc \in {"video_wait", "video_grace"} => waitTimeout # None
  /\ (ppc = "video_wait" /\ probed = None) =>
       waitTimeout = Some(Seconds(DEFAULT_VIDEO_TIMEOUT))

\* C7 witness: the archived script waits on a player it launched for a video
\* whose duration the probe did not give.
C7_Witness ==
  /\ script = "gdrive2video"
  /\ ppc = "video_wait"
  /\ proc = "running"
  /\ probed = None
  /\ waitTimeout = Some(Seconds(DEFAULT_VIDEO_TIMEOUT))

\* The names of a sequence, and the example directory of the specification
SeqElems(q) == {q[i] : i \in 1..Len(q)}
ExampleDir == {e \in DirPool : e.name \in {A_PNG, B_JPG, VIDEO_MP4, NOTES_TXT, SUB}}

\* C8: categorize_media_files returns two disjoint lists, each in ascending
\* path order, that hold exactly the regular files whose lower-cased extension
\* is an image extension, respectively a video extension; for the directory
\* {a.png, B.JPG, video.mp4, notes.txt, sub/} they are [B.JPG, a.png] and
\* [video.mp4].
C8_CategorizeMediaFiles ==
  classifyCall.called =>
    /\ SeqElems(classifyCall.images) \cap SeqElems(classifyCall.videos) = {}
    /\ \A i, j \in 1..Len(classifyCall.images) :
         i < j => LexLess(classifyCall.images[i], classifyCall.images[j])
    /\ \A i, j \in 1..Len(classifyCall.videos) :
         i < j => LexLess(classifyCall.videos[i], classifyCall.videos[j])
    /\ SeqElems(classifyCall.images) =
         {e.name : e \in {x \in classifyCall.dir :
            x.kind = "file" /\ LowerSeq(Suffix(x.name)) \in IMAGE_EXTENSIONS}}
    /\ SeqElems(classifyCall.videos) =
         {e.name : e \in {x \in classifyCall.dir :
            x.kind = "file" /\ LowerSeq(Suffix(x.name)) \in VIDEO_EXTENSIONS}}
    /\ classifyCall.dir = ExampleDir =>
         /\ classifyCall.images = <<B_JPG, A_PNG>>
         /\ classifyCall.videos = <<VIDEO_MP4>>

\* C8 witness: the function was called on the example directory.
C8_Witness ==
  /\ classifyCall.called
  /\ classifyCall.dir = ExampleDir
  /\ classifyCall.images = <<B_JPG, A_PNG>>

\* C9: when download_file returns, the destination's mtime is the entry's
\* modified_time, set by os.utime; a download that failed after opening the
\* destination leaves it with the mtime of the write, not with a stamp.
C9_StampIsLastStep ==
  /\ lastDl.outcome = "ok" =>
       /\ lastDl.file.stamp = "utime"
       /\ lastDl.file.mtime = remote[lastDl.idx].modified_time
  /\ (lastDl.outcome \in {"http_error", "other_error"} /\ lastDl.opened) =>
       /\ lastDl.file.stamp = "write"
       /\ lastDl.file.content = "partial"

\* C9 witness: a download has just returned over a local file whose mtime was
\* not the remote one.
C9_Witness ==
  /\ lastDl.outcome = "ok"
  /\ diskAtStart[TargetName(remote[lastDl.idx])].exists
  /\ diskAtStart[TargetName(remote[lastDl.idx])].mtime
       # remote[lastDl.idx].modified_time
  /\ lastDl.file.mtime # diskAtStart[TargetName(remote[lastDl.idx])].mtime

\* C10: probe_video_duration never raises, and returns a duration only when
\* ffprobe ran and printed a positive number; otherwise it returns None.
C10_ProbeOnlyPositive ==
  probeCall.called =>
    /\ ~probeCall.raised
    /\ probeCall.tool # "ok" => probeCall.result = None
    /\ probeCall.result # None => probeCall.result[1] > 0

\* C11: the player of a video is force-killed only after a graceful stop was
\* attempted (a quit input or a termination signal) and the grace period that
\* follows it has expired.
C11_GracefulStopBeforeKill ==
  \A i \in 1..Len(stops) :
    stops[i] = "kill" =>
      /\ \E j \in 1..(i - 1) : stops[j] \in {"quit", "quit_failed"}
      /\ i > 1 /\ stops[i - 1] = "grace_expired"

\* C12: in continuous mode, once the cancellation flag is set no further video
\* is launched in the cycle: no launch follows a launch that ended with the
\* flag set.
C12_NoLaunchAfterCancel ==
  (script = "media_player" /\ loop) =>
    \A i \in 2..Len(launchLog) : ~launchLog[i - 1].flag

\* What holds of a cycle whose classification found no media
C13_EmptyCycleState ==
  (cycles > 0 /\ images = <<>> /\ videos = <<>>) =>
    /\ launchLog = <<>>
    /\ proc # "running"
    /\ ppc \in {"backoff", "classify", "stopped"}
    /\ ~loop => (ppc = "stopped" /\ sleeping = 0)
    /\ ppc = "backoff" <=> sleeping = BACKOFF_SECONDS

\* How the backoff of such a cycle ends
C13_BackoffStep ==
  (ppc = "backoff" /\ ppc' # "backoff") =>
    /\ sleeping' = 0
    /\ launches' = launches
    /\ ppc' = IF stop_requested THEN "stopped" ELSE "classify"

\* C13: a cycle whose classification finds no images and no videos launches no
\* process; in single-pass mode playback_loop returns at once, in continuous
\* mode it sleeps the 30 s backoff and then returns if cancellation was
\* requested, and classifies the directory again otherwise.
C13_EmptyCycle == []C13_EmptyCycleState /\ [][C13_BackoffStep]_vars

\* C13 witness: after launches in an earlier cycle the directory was found
\* empty and the backoff is being slept, cancellation requested meanwhile.
C13_Witness ==
  /\ ppc = "backoff"
  /\ launches > 0
  /\ stop_requested
  /\ sleeping = BACKOFF_SECONDS

\* The names of the non-folder entries of the listing are pairwise distinct
DistinctNames ==
  \A i, j \in NonFolderIdx : i # j => TargetName(remote[i]) # TargetName(remote[j])

\* C14: an entry whose download was left partway in the last pass is not judged
\* up to date in this pass: once the pass has handled it, a download of it has
\* been attempted (it was not skipped).
C14_InterruptedIsRetried ==
  (DistinctNames /\ listOutcome = "ok") =>
    \A i \in prevInterrupted : i < idx => i \in attempted

\* The pages received so far, one after the other, as DriveFile values
RECURSIVE Received(_)
Received(k) ==
  IF k = 0 THEN <<>>
  ELSE Received(k - 1) \o
       [j \in 1..Len(Response(requested[k]).files) |->
          MakeDriveFile(Response(requested[k]).files[j])]

\* C15: list_drive_files asks for the first page without a token and for every
\* further page with the token of the response before it; it returns at the
\* first response without a token, and what it has accumulated is the pages
\* received, in order, each entry once.
C15_ListFollowsPagination ==
  /\ \A k \in 1..Len(requested) :
       requested[k] = IF k = 1 THEN None
                      ELSE Response(requested[k - 1]).nextPageToken
  /\ \A k \in 1..(Len(requested) - 1) :
       Response(requested[k]).nextPageToken # None
  /\ lpc \in {"request", "returned"} =>
       /\ files = Received(Len(requested))
       /\ Cardinality({files[j].file_id : j \in 1..Len(files)}) = Len(files)
  /\ lpc = "returned" =>
       /\ Response(requested[Len(requested)]).nextPageToken = None
       /\ Len(requested) = Len(drivePages)
       /\ [j \in 1..Len(files) |-> files[j].file_id] = [j \in 1..Len(files) |-> j]
  /\ lpc = "request" /\ requested # <<>> =>
       page_token = Response(requested[Len(requested)]).nextPageToken

\* C15 witness: the call has returned after more than one page, an empty page
\* among them.
C15_Witness ==
  /\ lpc = "returned"
  /\ Len(requested) > 1
  /\ \E k \in 1..Len(drivePages) : drivePages[k] = <<>>
  /\ Len(files) > 1

\* The order in which main begins and ends its three activities
EventCycle ==
  <<"sync_begin", "sync_end", "play_begin", "play_end", "wait_begin", "wait_end">>
LastEvent == IF events = <<>> THEN "none" ELSE events[Len(events)]

\* C16: in main, sync passes, playback cycles and waits follow one another in
\* that order and never overlap: the sync engine runs only inside a call that
\* has begun and not ended, the playback scheduler only after that call has
\* returned, the wait only after playback_loop has returned; with --once main
\* exits after exactly one pass and one playback cycle.
C16_StrictAlternation ==
  /\ \A k \in 1..Len(events) : events[k] = EventCycle[((k - 1) % 6) + 1]
  /\ ~(SyncRunning /\ PlayRunning)
  /\ SyncRunning => (mpc = "sync" /\ LastEvent = "sync_begin")
  /\ PlayRunning =>
       (mpc = "playback" /\ LastEvent = "play_begin" /\ pc = "returned")
  /\ mpc \in WaitPositions \cup {"after_wait"} =>
       (~SyncRunning /\ ~PlayRunning /\ LastEvent = "wait_begin")
  /\ mpc = "top" => (~SyncRunning /\ ~PlayRunning
                     /\ LastEvent \in {"none", "wait_end"})
  /\ once => Len(events) <= 4
  /\ (once /\ mpc = "exit") =>
       /\ events = <<"sync_begin", "sync_end", "play_begin", "play_end">>
       /\ passNo = 1

\* C16 witness: the playback scheduler runs in the second cycle, after a wait.
C16_Witness ==
  /\ ~once
  /\ PlayRunning
  /\ passNo = 2
  /\ Len(events) = 9
  /\ launches > 0

\* C17: after the flag is set at most one more time.sleep(1) ends, and a flag
\* set during the wait makes main leave the wait and exit without a further
\* sync pass.
C17_WaitPollsFlag ==
  /\ lateSleeps <= 1
  /\ stopAt \in WaitPositions =>
       /\ mpc \in WaitPositions \cup {"after_wait", "exit"}
       /\ passNo = stopPass
       /\ mpc = "sleep_call" => lateSleeps = 0

\* C17 witness: the flag was set during a wait that had sleeps left, one sleep
\* ended after it, and main has left the loop.
C17_Witness ==
  /\ stopAt \in WaitPositions
  /\ mpc = "exit"
  /\ lateSleeps = 1
  /\ waited < sync_interval

\* C18: once the flag is set, main starts no sync pass.
C18_NoPassAfterCancel ==
  stop_requested => passNo = stopPass

\* What the duration prober answers for the video being played
ProbeAnswer == ProbeVideoDuration(ffprobe.tool, ffprobe.stdout)

\* C19: the wait on a video's player is bounded by the duration the prober gives
\* for that video when it gives one, and by DEFAULT_VIDEO_TIMEOUT only when the
\* prober's answer is unknown.
C19_TimeoutFromProbe ==
  ppc = "video_wait" =>
    waitTimeout = IF ProbeAnswer # None THEN ProbeAnswer
                  ELSE Some(Seconds(DEFAULT_VIDEO_TIMEOUT))

\* The launches of a video player in the cycle, in the order they were made
IsPlayerLaunch(e) == e.video > 0
PlayerLaunches == SelectSeq(launchLog, IsPlayerLaunch)

\* C20: with the player installed, a videos step launches the videos of the
\* list one by one in the order of the list, which is the lexicographic order,
\* each one once, whatever the way the one before ended (exit, non-zero exit,
\* timeout); when the step is over every video has been launched.
C20_EveryVideoOnceInOrder ==
  (installed.player /\ ppc \in {"videos", "video_probe", "video_wait",
                                "video_cleanup", "video_grace", "after_videos"}) =>
    /\ \A i, j \in 1..Len(videos) : i < j => LexLess(videos[i], videos[j])
    /\ \A k \in 1..Len(PlayerLaunches) : PlayerLaunches[k].video = k
    /\ ppc = "videos" =>
         /\ Len(PlayerLaunches) = vidx - 1
         /\ \A k \in 1..Len(PlayerLaunches) : PlayerLaunches[k].end # "running"
    /\ ppc \in {"video_probe", "video_wait", "video_cleanup", "video_grace"} =>
         Len(PlayerLaunches) = vidx
    /\ ppc = "after_videos" => Len(PlayerLaunches) = Len(videos)

\* C20 witness: media_player's videos step is over; the first of two videos was
\* stopped at its timeout and the second one exited with a non-zero status.
C20_Witness ==
  /\ script = "media_player"
  /\ ppc = "after_videos"
  /\ Len(videos) = 2
  /\ Len(PlayerLaunches) = 2
  /\ PlayerLaunches[1].end = "timeout"
  /\ PlayerLaunches[2].end = "failed"

\* In continuous mode playback_loop ends on cancellation only
C21_LoopEndsOnCancelOnly ==
  (script = "media_player" /\ loop /\ ppc = "stopped") => stop_requested

\* The step that follows the images step and the videos step, whatever happened
\* to the tools in them
C21_StepGoesOn ==
  /\ (ppc \in {"images", "images_wait"} /\ ppc' \notin {"images", "images_wait"})
       => ppc' = "after_images"
  /\ (ppc = "after_images" /\ ~stop_requested /\ ppc' # ppc) => ppc' = "videos"
  /\ (ppc = "videos" /\ ppc' # ppc)
       => ppc' \in {"video_wait", "video_probe", "after_videos"}
  /\ (ppc = "video_wait" /\ script = "media_player" /\ ppc' # ppc)
       => ppc' = "videos"
  /\ (ppc = "after_videos" /\ script = "media_player" /\ loop
        /\ ~stop_requested /\ ppc' # ppc) => ppc' = "classify"

\* C21: a missing executable or a non-zero exit of a display tool never ends
\* playback_loop: the images step is followed by the videos step, a failed
\* video by the next one, and in continuous mode the cycle by the next cycle;
\* the loop ends on cancellation only.
C21_ToolFailureIsContained ==
  []C21_LoopEndsOnCancelOnly /\ [][C21_StepGoesOn]_vars

\* C21 witness: in continuous mode a second cycle was begun although the first
\* one found the viewer missing and its video player exited with a non-zero
\* status.
C21_Witness ==
  /\ script = "media_player"
  /\ loop
  /\ ~stop_requested
  /\ ~installed.viewer
  /\ images # <<>>
  /\ ppc = "classify"
  /\ cycles = 1
  /\ \E k \in 1..Len(launchLog) : launchLog[k].end = "failed"

\* The entries of the listing that are files, by their type tag
FileIdx == {i \in 1..Len(remote) : remote[i].mime_type # FOLDER_MIME}

\* The paths of the file entries among the first k that did not fail, in the
\* order of the listing
RECURSIVE ExpectedPaths(_)
ExpectedPaths(k) ==
  IF k = 0 THEN <<>>
  ELSE IF k \in FileIdx /\ k \notin failed
       THEN Append(ExpectedPaths(k - 1), remote[k].name)
       ELSE ExpectedPaths(k - 1)

\* C22: the pass handles the entries in the order of the listing; a folder
\* entry is never downloaded and counts nowhere; the synced-path list is, in
\* listing order, the path of every file entry handled so far that was up to
\* date or was downloaded.
C22_ListingOrderNoFolders ==
  listOutcome = "ok" =>
    /\ idx \in 1..(Len(remote) + 1)
    /\ pc = "returned" => idx = Len(remote) + 1
    /\ attempted \subseteq FileIdx \cap 1..idx
    /\ failed \subseteq attempted
    /\ synced_paths = ExpectedPaths(idx - 1)
    /\ downloaded_count = Cardinality({i \in attempted \ failed : i < idx})
    /\ skipped_count = Cardinality({i \in FileIdx \ attempted : i < idx})

\* C22 witness: a pass over a folder entry followed by a file entry has
\* returned, the file downloaded.
C22_Witness ==
  /\ pc = "returned"
  /\ listOutcome = "ok"
  /\ Len(remote) = 2
  /\ remote[1].mime_type = FOLDER_MIME
  /\ synced_paths = <<remote[2].name>>
  /\ downloaded_count = 1

\* The bookkeeping of a pass between two entries and in its result
C23_CountsState ==
  /\ Len(synced_paths) = downloaded_count + skipped_count
  /\ (pc = "returned" /\ listOutcome = "ok") =>
       downloaded_count + skipped_count + Cardinality(failed)
         = Cardinality(FileIdx)
  /\ (pc = "returned" /\ listOutcome # "ok") =>
       /\ synced_paths = <<>>
       /\ downloaded_count = 0
       /\ skipped_count = 0

\* A download is entered for a file entry that had no attempt in this pass, and
\* nothing else adds to the attempts
C23_OneAttemptStep ==
  /\ (pc = "loop" /\ pc' = "dl_open") =>
       /\ idx \in FileIdx
       /\ idx \notin attempted
       /\ attempted' = attempted \cup {idx}
  /\ attempted' # attempted =>
       \/ pc = "loop" /\ pc' = "dl_open"
       \/ attempted' = {}

FreshMatches(entry) ==
  LocalFileMatches(disk[TargetName(entry)].exists, None,
                   disk[TargetName(entry)].mtime, entry.modified_time)

\* The decisions of the pass about the entry it is at are those of a fresh stat
C24_DecisionIsFresh ==
  (pc = "loop" /\ listOutcome = "ok" /\ idx <= Len(remote)
     /\ ~IsFolder(remote[idx])) =>
    (EntryMatches(remote[idx]) <=> FreshMatches(remote[idx]))

\* C24: during a pass every modification time held in the per-pass cache is
\* the modification time the file has on disk now, and the staleness decision
\* taken from the cache is the one a fresh stat would give.
C24_CacheNeverStale ==
  /\ \A n \in Names :
       file_metadata[n] # None =>
         disk[n].exists /\ file_metadata[n] = Some(disk[n].mtime)
  /\ C24_DecisionIsFresh

\* The sync passes of a media directory that is empty before the first pass
InitFresh ==
  /\ Init
  /\ \A n \in Names : disk[n] = NoFile

SpecFresh == InitFresh /\ [][NextSync]_vars

\* C25: from an empty directory, and whatever downloads failed partway, every
\* path in the synced-path list a pass returns names a file that holds the
\* complete content of its entry, with a modification time within 1 second of
\* the entry's modifiedTime.
C25_SyncedPathsComplete ==
  (pc = "returned" /\ listOutcome = "ok" /\ DistinctNames) =>
    \A i \in FileIdx :
      (\E k \in 1..Len(synced_paths) : synced_paths[k] = TargetName(remote[i]))
        => /\ disk[TargetName(remote[i])].exists
           /\ disk[TargetName(remote[i])].content = "complete"
           /\ disk[TargetName(remote[i])].id = i
           /\ WithinDrift(disk[TargetName(remote[i])].mtime,
                          remote[i].modified_time)

\* C26 as stated: once the cancellation flag is set, the media directory is
\* not classified again.
C26_NoClassifyAfterCancel ==
  script = "media_player" => lateClassify = 0

\* With the flag set, a cancellation check ends the loop
C26_CheckExitsStep ==
  (script = "media_player" /\ stop_requested
     /\ ppc \in {"backoff", "after_images", "after_videos"} /\ ppc' # ppc)
    => ppc' = "stopped"

\* With the flag set, a classification is the one that was already reached
\* when the flag was set: nothing leads back to the classification
C26_NoWayBackStep ==
  (script = "media_player" /\ stop_requested /\ ppc # "classify")
    => ppc' # "classify"

\* C26 amended: once the cancellation flag is set, the media directory is
\* classified at most once more (when the flag was set between a cancellation
\* check and the classification that follows it), and the loop exits at the
\* first cancellation check it reaches.
C26_AtMostOneLateClassify ==
  /\ [](script = "media_player" => lateClassify <= 1)
  /\ [][C26_CheckExitsStep /\ C26_NoWayBackStep]_vars

\* C26 witness: the flag was set after the check that follows the videos step,
\* the directory was classified once more, and the loop has ended.
C26_Witness ==
  /\ script = "media_player"
  /\ loop
  /\ stop_requested
  /\ lateClassify = 1
  /\ cycles = 2
  /\ ppc = "stopped"

\* C27: in continuous mode, when the loop comes back to the classification, the
\* cycle it has just ended either found no media (and slept the backoff) or
\* launched at least one display process and waited on it.
C27_NoBusySpin ==
  (script = "media_player" /\ loop /\ ppc = "classify" /\ cycles > 0) =>
    \/ images = <<>> /\ videos = <<>>
    \/ launchLog # <<>>

\* The positions of the scheduler at which no display process has been started
\* or the one started has been waited for or killed
C28_BetweenProcesses ==
  {"off", "classify", "backoff", "images", "after_images", "videos",
   "after_videos", "stopped"}

\* A display process is started only when none is alive
C28_LaunchStep == aliveProcs' > aliveProcs => aliveProcs = 0

PlayStep ==
  \/ ClassifyMedia \/ ClassifyEmpty \/ BackoffEnd
  \/ ImagesNothing \/ ImagesLaunch \/ ImagesExit \/ AfterImages
  \/ VideosReturn \/ VideoLaunch \/ VideoProbe \/ VideoExit \/ VideoTimeout
  \/ CleanupDone \/ CleanupQuit \/ GraceExit \/ GraceKill \/ AfterVideos

\* Playback in which the interpreter goes on running, a sleep ends, and every
\* launched process exits or reaches its timeout
SpecPlayFair == InitPlaySpec /\ [][NextPlay]_vars /\ WF_vars(PlayStep)

\* With the flag set, no cycle is begun but the one whose classification had
\* been reached when the flag was set
C29_WithinCycleStep ==
  (stop_requested /\ ppc # "classify") => cycles' = cycles

====
